---- MODULE Spec2Model ----
(***************************************************************************)
(* A model of boop, an HTTP load generator:                                *)
(*   - main (feeder, worker start-up, wg.Wait, summarize) and worker;      *)
(*   - resultSet.add under its mutex;                                      *)
(*   - resultSet.summarize as a function of the record list;               *)
(*   - JitterTicker (NewJitterTicker, loop, nextInterval, Stop);           *)
(*   - the request bodies of the workers (Clone, GetBody, bytesReaderT);    *)
(*   - the LiveMonitor (processSamples, updateMetrics, renderGraphs).       *)
(* Durations are integers (nanoseconds in the program).                    *)
(***************************************************************************)
EXTENDS Integers, Sequences, FiniteSets, TLC

\* ------------------------------------------------------------------ bounds

MaxConcur == 2          \* largest -c drawn by Init
MaxTotal == 3           \* largest -n drawn by Init
MaxLoad == 4            \* largest -c plus -n drawn by Init

\* ------------------------------------------------------------------ values

Workers == 0 .. (MaxConcur - 1)
NoToken == -1
NoOwner == -1

\* what the transport can answer: an error, or a response (status, body bytes)
Latencies == {1}
Responses == {[status |-> 200, size |-> 2]}
ErrText == "dummy error"
\* the error of a request whose context was cancelled
CtxErrText == "context canceled"
NoResult == [kind |-> "none"]
\* what client.Do returns: (nil, err) or (resp, nil), with the time it took
DoResults ==
    {[kind |-> "error", err |-> ErrText]} \cup
    {[kind |-> "response", status |-> r.status, size |-> r.size, latency |-> l] :
        r \in Responses, l \in Latencies}

\* the zero value of `record` (var rec record)
zeroRecord ==
    [latency |-> 0, status |-> 0, size |-> 0, failed |-> FALSE, errMsg |-> ""]

\* rec after the err != nil branch of worker
failedRecord(msg) ==
    [zeroRecord EXCEPT !.failed = TRUE, !.errMsg = msg]

\* rec after the response branch of worker
responseRecord(lat, status, n) ==
    [zeroRecord EXCEPT !.latency = lat, !.status = status, !.size = n]

\* ------------------------------------------------------------------ summarize

Millisecond == 1000000  \* time.Millisecond, in nanoseconds
histoBins == 11
Percentiles == {10, 25, 50, 75, 90, 95, 99}

RECURSIVE insertSorted(_, _)
insertSorted(s, x) ==
    IF s = <<>> THEN <<x>>
    ELSE IF x <= Head(s) THEN <<x>> \o s
    ELSE <<Head(s)>> \o insertSorted(Tail(s), x)

\* slices.SortFunc(latencies, cmp.Compare): ascending
RECURSIVE sortAsc(_)
sortAsc(s) ==
    IF s = <<>> THEN <<>> ELSE insertSorted(sortAsc(Tail(s)), Head(s))

RECURSIVE sumSeq(_)
sumSeq(s) == IF s = <<>> THEN 0 ELSE Head(s) + sumSeq(Tail(s))

\* the loop over r.records: the latencies of the records that are not failed,
\* in record order
successLatencies(recs) ==
    LET ok == SelectSeq(recs, LAMBDA r : ~r.failed)
    IN  [i \in 1 .. Len(ok) |-> ok[i].latency]

bytesTotalOf(recs) ==
    LET ok == SelectSeq(recs, LAMBDA r : ~r.failed)
    IN  sumSeq([i \in 1 .. Len(ok) |-> ok[i].size])

failedCount(recs) == Len(SelectSeq(recs, LAMBDA r : r.failed))

\* statusCount := map[int]int{}
emptyCount == [s \in {} |-> 0]

\* statusCount[s]++ on a Go map: a missing key reads as 0
incrCount(m, s) ==
    [k \in DOMAIN m \cup {s} |->
        IF k = s THEN (IF s \in DOMAIN m THEN m[s] ELSE 0) + 1 ELSE m[k]]

\* the loop over r.records, as far as statusCount goes: both branches (the
\* failed one and the successful one) run statusCount[rec.status]++
RECURSIVE statusCountLoop(_, _)
statusCountLoop(m, recs) ==
    IF recs = <<>> THEN m
    ELSE statusCountLoop(IF Head(recs).failed
                         THEN incrCount(m, Head(recs).status)
                         ELSE incrCount(m, Head(recs).status),
                         Tail(recs))

\* faulty variant: the failed branch does not count its record
statusCountOfSuccessful(recs) ==
    statusCountLoop(emptyCount, SelectSeq(recs, LAMBDA r : ~r.failed))

\* statusCount after the loop
statusCountOf(recs) == statusCountLoop(emptyCount, recs)

\* a Go slice index (0-based) that does not panic
inRange(s, i) == i >= 0 /\ i < Len(s)
at(s, i) == s[i + 1]

\* faulty variant: the index wraps around instead of being clamped
pctIndexWrapped(n, p) == ((n * p + 50) \div 100) % n

\* pct(p) of summarize, p given in percent:
\* idx := int(float64(len)*p + .5), clamped to len-1
pctIndex(n, p) ==
    LET idx == (n * p + 50) \div 100
    IN  IF idx >= n THEN n - 1 ELSE idx

pct(latencies, p) ==
    IF Len(latencies) = 0 THEN 0 ELSE at(latencies, pctIndex(Len(latencies), p))

\* binSize of summarize
binSizeOf(minLatency, maxLatency) ==
    LET b == (maxLatency - minLatency) \div (histoBins - 1)
    IN  IF b = 0 THEN 1 * Millisecond ELSE b

\* faulty variant: binIdx is not clamped to the last bin
binIdxNoClamp(lat, minLatency, binSize) == (lat - minLatency) \div binSize

\* binIdx of one latency
binIdxOf(lat, minLatency, binSize) ==
    LET b == (lat - minLatency) \div binSize
    IN  IF b >= histoBins THEN histoBins - 1 ELSE b

\* bins of summarize, indexed 0 .. histoBins-1
binsOf(latencies, minLatency, binSize) ==
    [b \in 0 .. (histoBins - 1) |->
        Cardinality({i \in 1 .. Len(latencies) :
                        binIdxOf(latencies[i], minLatency, binSize) = b})]

\* whether the statistics part of summarize (from "Calculate basic stats" on)
\* panics on these sorted latencies: an index out of range or an integer
\* division by zero
statsPanic(latencies) ==
    LET successful == Len(latencies)
    IN  \/ ~inRange(latencies, 0)                  \* latencies[0]
        \/ ~inRange(latencies, successful - 1)     \* latencies[successful-1]
        \/ successful = 0                          \* mean /= successful
        \/ binSizeOf(at(latencies, 0), at(latencies, successful - 1)) = 0
                                                   \* (lat - minLatency) / binSize

\* the statistics part of summarize
statsOf(recs, latencies) ==
    LET successful == Len(latencies)
        minLatency == at(latencies, 0)
        maxLatency == at(latencies, successful - 1)
        binSize    == binSizeOf(minLatency, maxLatency)
    IN  [outcome     |-> "summary",
         total       |-> Len(recs),
         failed      |-> failedCount(recs),
         minLatency  |-> minLatency,
         maxLatency  |-> maxLatency,
         mean        |-> sumSeq(latencies) \div successful,
         bytesTotal  |-> bytesTotalOf(recs),
         sizePerReq  |-> bytesTotalOf(recs) \div successful,
         pcts        |-> [p \in Percentiles |-> pct(latencies, p)],
         bins        |-> binsOf(latencies, minLatency, binSize),
         statusCount |-> statusCountOf(recs)]

NoSummary == [outcome |-> "none"]

\* faulty variant: no early return when no record is successful
allFailedGuardMissing(successful) == FALSE

\* the early return of summarize when no record is successful
allFailedGuard(successful) == successful = 0

\* resultSet.summarize: what it reports for the record list
summarize(recs) ==
    IF Len(recs) = 0 THEN [outcome |-> "no records"]
    ELSE LET latencies == sortAsc(successLatencies(recs))
         IN  IF allFailedGuard(Len(latencies))
             THEN [outcome |-> "all failed"]
             ELSE IF statsPanic(latencies) THEN [outcome |-> "panic"]
             ELSE statsOf(recs, latencies)

VARIABLES
    concur,     \* -c
    totalReq,   \* -n
    rateLimited,\* -q > 0
    mainPc,     \* where main is
    exitCode,   \* -1 while running, else the process's exit status
    spawned,    \* i of the worker start loop
    feedI,      \* i of the feed loop
    jobCh,      \* the buffered job channel's content
    jobClosed,  \* close(jobCh) has happened
    ctxDone,    \* ctx.Done() is closed
    wgCount,    \* the WaitGroup counter
    wpc,        \* where each worker is
    limiter,    \* per worker: ticks buffered in its time.Ticker channel (cap 1)
    tickersOn,  \* per worker: its time.Ticker is running
    mu,         \* resultSet.mu: NoOwner, or who holds it
    records,    \* resultSet.records
    summary,    \* what summarize reported
    result,     \* per worker: what client.Do returned (resp, err)
    \* history variables (not program state)
    held,       \* per worker: the token of its current iteration
    takenBy,    \* per token: the worker that received it, or NoOwner
    recBy,      \* per record of `records`: <<worker, token>> that added it
    enqueued,   \* tokens sent on jobCh
    dequeued,   \* tokens received from jobCh
    released,   \* per worker: ticks put on its limiter channel
    permits,    \* per worker: ticks it received from its limiter
    waitingAtCancel \* the workers that were blocked in the limiter select,
                \* no tick buffered, when the signal arrived

runVars == <<concur, totalReq, rateLimited, mainPc, exitCode, spawned, feedI,
             jobCh, jobClosed, ctxDone, wgCount, wpc, limiter, tickersOn,
             mu, records, summary, result, held, takenBy, recBy, enqueued,
             dequeued, released, permits, waitingAtCancel>>

\* concurrent callers of resultSet.add
VARIABLES
    apc,        \* per task: where it is in add
    tmp,        \* per task: the slice append read
    added       \* per task: adds that have returned

addVars == <<apc, tmp, added>>

\* JitterTicker, its timer, and a consumer of jt.C
VARIABLES
    jtD,        \* NewJitterTicker's d
    jtJitter,   \* NewJitterTicker's jitter
    jtMin,      \* jt.min
    jtMax,      \* jt.max
    tpc,        \* where the loop goroutine is
    timer,      \* the state of the loop's time.Timer t
    wait,       \* the duration t was last scheduled with
    stopClosed, \* jt.stop is closed
    jtPanic,    \* the panic raised by the ticker's code, or "none"
    rcv,        \* the consumer: "idle", or "waiting" in <-jt.C
    got,        \* ticks the consumer received
    gotAfterStop \* ticks the consumer received after Stop() returned

tickVars == <<jtD, jtJitter, jtMin, jtMax, tpc, timer, wait, stopClosed,
              jtPanic, rcv, got, gotAfterStop>>

\* workers sending requests cloned from a template that may carry a body
VARIABLES
    bodyLen,    \* len(bodyBytes)
    readers,    \* per body reader alive: its cursor (bytesReaderT.i)
    breq,       \* per sender: the reader that is req.Body, or NoBody
    bpc,        \* per sender: where it is in the loop body
    bgot,       \* per sender: what the transport has read of req.Body
    bsent,      \* per sender: requests completed
    seen        \* per sender: the body each completed request carried

bodyVars == <<bodyLen, readers, breq, bpc, bgot, bsent, seen>>

\* the LiveMonitor: liveMetrics and the loop of processSamples
VARIABLES
    lmNow,      \* the clock (time.Now())
    lmWindow,   \* lm.windowSize
    lmPc,       \* where processSamples is
    lmSamples,  \* samples, the buffer of processSamples
    lmLast,     \* lastProcessTime
    lmPoints,   \* lm.points
    lmCount,    \* lm.count
    lmRendered, \* what renderGraphs last read: the time and lm.points
    \* history variables (not program state)
    lmIds,      \* per sample in the buffer: its arrival number
    lmLog,      \* the records received from lm.recordCh, in order
    lmBatches   \* per point ever appended: the point and the arrival numbers
                \* of the samples it was made of

liveVars == <<lmNow, lmWindow, lmPc, lmSamples, lmLast, lmPoints, lmCount,
              lmRendered, lmIds, lmLog, lmBatches>>

vars == <<runVars, addVars, tickVars, bodyVars, liveVars>>

\* what a step of the run leaves alone
offRun == <<addVars, tickVars, bodyVars, liveVars>>

\* ------------------------------------------------------------------ main

\* faulty variant: concurrency is not compared with the number of requests
configInvalidNoOrder(c, n) == c <= 0 \/ n <= 0

\* the flag check of main: "n must be >= c and both > 0"
configInvalid(c, n) == c <= 0 \/ n <= 0 \/ c > n

\* r.records = append(r.records, rec), the body of resultSet.add
appendRecord(recs, rec) == Append(recs, rec)

RunInit ==
    /\ concur \in 0 .. MaxConcur
    /\ totalReq \in 0 .. MaxTotal
    /\ concur + totalReq <= MaxLoad
    /\ rateLimited \in BOOLEAN
    /\ mainPc = "validate"
    /\ exitCode = -1
    /\ spawned = 0
    /\ feedI = 0
    /\ jobCh = <<>>
    /\ jobClosed = FALSE
    /\ ctxDone = FALSE
    /\ wgCount = 0
    /\ wpc = [w \in Workers |-> "unstarted"]
    /\ limiter = [w \in Workers |-> 0]
    /\ tickersOn = [w \in Workers |-> FALSE]
    /\ mu = NoOwner
    /\ records = <<>>
    /\ summary = NoSummary
    /\ result = [w \in Workers |-> NoResult]
    /\ held = [w \in Workers |-> NoToken]
    /\ takenBy = [t \in 0 .. (MaxTotal - 1) |-> NoOwner]
    /\ recBy = <<>>
    /\ enqueued = 0
    /\ dequeued = 0
    /\ released = [w \in Workers |-> 0]
    /\ permits = [w \in Workers |-> 0]
    /\ waitingAtCancel = {}

\* no concurrent adders
AddIdle ==
    /\ apc = [t \in {} |-> "done"]
    /\ tmp = [t \in {} |-> <<>>]
    /\ added = [t \in {} |-> 0]

\* no LiveMonitor (-live is not set)
LiveIdle ==
    /\ lmNow = 0 /\ lmWindow = 0 /\ lmPc = "none"
    /\ lmSamples = <<>> /\ lmLast = 0 /\ lmPoints = <<>> /\ lmCount = 0
    /\ lmRendered = [at |-> 0, points |-> <<>>]
    /\ lmIds = <<>> /\ lmLog = <<>> /\ lmBatches = <<>>

\* no sender
BodyIdle ==
    /\ bodyLen = 0
    /\ readers = [r \in {} |-> 0]
    /\ breq = [w \in {} |-> ""]
    /\ bpc = [w \in {} |-> "done"]
    /\ bgot = [w \in {} |-> <<>>]
    /\ bsent = [w \in {} |-> 0]
    /\ seen = [w \in {} |-> <<>>]

\* no ticker
TickIdle ==
    /\ jtD = 0 /\ jtJitter = 0 /\ jtMin = 0 /\ jtMax = 0
    /\ tpc = "none" /\ timer = "none" /\ wait = 0
    /\ stopClosed = FALSE /\ jtPanic = "none"
    /\ rcv = "idle" /\ got = 0 /\ gotAfterStop = 0

cfgVars == <<concur, totalReq, rateLimited>>
hist == <<held, takenBy, recBy, enqueued, dequeued, released, permits>>

\* main up to the creation of ctx: an invalid configuration exits with 1
Validate ==
    /\ mainPc = "validate"
    /\ IF configInvalid(concur, totalReq)
       THEN mainPc' = "fatal" /\ exitCode' = 1
       ELSE mainPc' = "spawn" /\ exitCode' = exitCode
    /\ UNCHANGED <<cfgVars, waitingAtCancel, spawned, feedI, jobCh, jobClosed, ctxDone, wgCount,
                   wpc, limiter, tickersOn, mu, records, summary, result, hist>>
    /\ UNCHANGED offRun

\* one iteration of the worker start loop: wg.Add(1), the worker's ticker
\* when -q > 0, the staggering sleep, go worker(...)
Spawn ==
    /\ mainPc = "spawn"
    /\ spawned < concur
    /\ wgCount' = wgCount + 1
    /\ tickersOn' = [tickersOn EXCEPT ![spawned] = rateLimited]
    /\ wpc' = [wpc EXCEPT ![spawned] = "range"]
    /\ spawned' = spawned + 1
    /\ UNCHANGED <<cfgVars, waitingAtCancel, mainPc, exitCode, feedI, jobCh, jobClosed, ctxDone,
                   limiter, mu, records, summary, result, hist>>
    /\ UNCHANGED offRun

\* the start loop is over: main goes on to feed jobs
SpawnDone ==
    /\ mainPc = "spawn"
    /\ spawned >= concur
    /\ mainPc' = "feed"
    /\ UNCHANGED <<cfgVars, waitingAtCancel, exitCode, spawned, feedI, jobCh, jobClosed, ctxDone,
                   wgCount, wpc, limiter, tickersOn, mu, records, summary, result, hist>>
    /\ UNCHANGED offRun

\* faulty variant: i <= *totalReq
feedMoreOffByOne(i, n) == i <= n

\* faulty variant: the feed loop stops one token early
feedMoreStopsEarly(i, n) == i < n - 1

\* the feed loop's condition, i < *totalReq
feedMore(i, n) == i < n

\* feed loop, case jobCh <- i (the channel has room)
FeedSend ==
    /\ mainPc = "feed"
    /\ feedMore(feedI, totalReq)
    /\ Len(jobCh) < concur
    /\ jobCh' = Append(jobCh, feedI)
    /\ feedI' = feedI + 1
    /\ enqueued' = enqueued + 1
    /\ UNCHANGED <<cfgVars, waitingAtCancel, mainPc, exitCode, spawned, jobClosed, ctxDone,
                   wgCount, wpc, limiter, tickersOn, mu, records, summary,
                   result, held, takenBy, recBy, dequeued, released, permits>>
    /\ UNCHANGED offRun

\* faulty variant: the feed loop's select has no ctx.Done() case
feederIgnoresDone(done) == FALSE

\* the feed loop's select can take case <-ctx.Done()
feederSeesDone(done) == done

\* feed loop, case <-ctx.Done(): i = *totalReq
FeedCancelled ==
    /\ mainPc = "feed"
    /\ feedMore(feedI, totalReq)
    /\ feederSeesDone(ctxDone)
    /\ feedI' = totalReq
    /\ UNCHANGED <<cfgVars, waitingAtCancel, mainPc, exitCode, spawned, jobCh, jobClosed, ctxDone,
                   wgCount, wpc, limiter, tickersOn, mu, records, summary, result, hist>>
    /\ UNCHANGED offRun

\* the feed loop is over: close(jobCh)
FeedClose ==
    /\ mainPc = "feed"
    /\ ~feedMore(feedI, totalReq)
    /\ jobClosed' = TRUE
    /\ mainPc' = "wait"
    /\ UNCHANGED <<cfgVars, waitingAtCancel, exitCode, spawned, feedI, jobCh, ctxDone, wgCount,
                   wpc, limiter, tickersOn, mu, records, summary, result, hist>>
    /\ UNCHANGED offRun

\* faulty variant: main does not wait for the workers
waitReturnsAtOnce(n) == TRUE

\* wg.Wait() returns when the WaitGroup counter is zero
waitReturns(n) == n = 0

\* wg.Wait() returns, then every ticker is stopped
WaitAndStop ==
    /\ mainPc = "wait"
    /\ waitReturns(wgCount)
    /\ tickersOn' = [w \in Workers |-> FALSE]
    /\ mainPc' = "summarize"
    /\ UNCHANGED <<cfgVars, waitingAtCancel, exitCode, spawned, feedI, jobCh, jobClosed, ctxDone,
                   wgCount, wpc, limiter, mu, records, summary, result, hist>>
    /\ UNCHANGED offRun

\* results.summarize(), then main returns
Summarize ==
    /\ mainPc = "summarize"
    /\ summary' = summarize(records)
    /\ mainPc' = "done"
    /\ exitCode' = 0
    /\ UNCHANGED <<cfgVars, waitingAtCancel, spawned, feedI, jobCh, jobClosed, ctxDone, wgCount,
                   wpc, limiter, tickersOn, mu, records, result, hist>>
    /\ UNCHANGED offRun

\* SIGINT or SIGTERM arrives after signal.NotifyContext
Cancel ==
    /\ mainPc \in {"spawn", "feed", "wait", "summarize"}
    /\ ~ctxDone
    /\ ctxDone' = TRUE
    /\ waitingAtCancel' = {w \in Workers : wpc[w] = "limiter" /\ limiter[w] = 0}
    /\ UNCHANGED <<cfgVars, mainPc, exitCode, spawned, feedI, jobCh, jobClosed,
                   wgCount, wpc, limiter, tickersOn, mu, records, summary, result, hist>>
    /\ UNCHANGED offRun

\* a worker's time.Ticker fires: the tick is buffered if the channel (cap 1)
\* is empty, dropped otherwise
LimiterTick(w) ==
    /\ tickersOn[w]
    /\ limiter[w] = 0
    /\ limiter' = [limiter EXCEPT ![w] = 1]
    /\ released' = [released EXCEPT ![w] = @ + 1]
    /\ UNCHANGED <<cfgVars, waitingAtCancel, mainPc, exitCode, spawned, feedI, jobCh, jobClosed,
                   ctxDone, wgCount, wpc, tickersOn, mu, records, summary,
                   result, held, takenBy, recBy, enqueued, dequeued, permits>>
    /\ UNCHANGED offRun

\* ------------------------------------------------------------------ worker

\* return (with the deferred wg.Done())
workerExit(w) ==
    /\ wpc' = [wpc EXCEPT ![w] = "exited"]
    /\ wgCount' = wgCount - 1

\* for range jobCh: a token is received
RangeRecv(w) ==
    /\ wpc[w] = "range"
    /\ jobCh # <<>>
    /\ held' = [held EXCEPT ![w] = Head(jobCh)]
    /\ takenBy' = [takenBy EXCEPT ![Head(jobCh)] = w]
    /\ jobCh' = Tail(jobCh)
    /\ dequeued' = dequeued + 1
    /\ wpc' = [wpc EXCEPT ![w] = "ctxcheck"]
    /\ UNCHANGED <<cfgVars, waitingAtCancel, mainPc, exitCode, spawned, feedI, jobClosed, ctxDone,
                   wgCount, limiter, tickersOn, mu, records, summary, result,
                   recBy, enqueued, released, permits>>
    /\ UNCHANGED offRun

\* faulty variant: the loop ends as soon as the queue is empty
rangeOverEarly(ch, closed) == ch = <<>>

\* for range jobCh ends: the channel is closed and drained
rangeOver(ch, closed) == ch = <<>> /\ closed

\* for range jobCh: the channel is closed and drained, the worker returns
RangeClosed(w) ==
    /\ wpc[w] = "range"
    /\ rangeOver(jobCh, jobClosed)
    /\ workerExit(w)
    /\ UNCHANGED <<cfgVars, waitingAtCancel, mainPc, exitCode, spawned, feedI, jobCh, jobClosed,
                   ctxDone, limiter, tickersOn, mu, records, summary, result,
                   hist>>
    /\ UNCHANGED offRun

\* faulty variant: the limiter is never waited for
afterCtxCheckUnlimited(limited) == "do"

\* where a worker that passed the ctx check goes: the limiter select if it
\* has a limiter (limiter != nil), the request otherwise
afterCtxCheck(limited) == IF limited THEN "limiter" ELSE "do"

\* select { case <-ctx.Done(): return; default: }
CtxCheck(w) ==
    /\ wpc[w] = "ctxcheck"
    /\ IF ctxDone
       THEN workerExit(w)
       ELSE /\ wpc' = [wpc EXCEPT ![w] = afterCtxCheck(rateLimited)]
            /\ wgCount' = wgCount
    /\ UNCHANGED <<cfgVars, waitingAtCancel, mainPc, exitCode, spawned, feedI, jobCh, jobClosed,
                   ctxDone, limiter, tickersOn, mu, records, summary, result,
                   hist>>
    /\ UNCHANGED offRun

\* select on the limiter, case <-limiter
LimiterRecv(w) ==
    /\ wpc[w] = "limiter"
    /\ limiter[w] > 0
    /\ limiter' = [limiter EXCEPT ![w] = @ - 1]
    /\ permits' = [permits EXCEPT ![w] = @ + 1]
    /\ wpc' = [wpc EXCEPT ![w] = "do"]
    /\ UNCHANGED <<cfgVars, waitingAtCancel, mainPc, exitCode, spawned, feedI, jobCh, jobClosed,
                   ctxDone, wgCount, tickersOn, mu, records, summary, result,
                   held, takenBy, recBy, enqueued, dequeued, released>>
    /\ UNCHANGED offRun

\* select on the limiter, case <-ctx.Done(): return
LimiterCancelled(w) ==
    /\ wpc[w] = "limiter"
    /\ ctxDone
    /\ workerExit(w)
    /\ UNCHANGED <<cfgVars, waitingAtCancel, mainPc, exitCode, spawned, feedI, jobCh, jobClosed,
                   ctxDone, limiter, tickersOn, mu, records, summary, result,
                   hist>>
    /\ UNCHANGED offRun

\* what client.Do(req) can return for req := reqTpl.Clone(ctx): what the
\* transport answers and, once ctx is cancelled, the error of the cancelled
\* request
doResultsOf(done) ==
    DoResults \cup (IF done THEN {[kind |-> "error", err |-> CtxErrText]} ELSE {})

\* the request is cloned and sent, and client.Do returns: the transport's
\* answer is an error or a response; a request whose context is cancelled
\* while it is under way can be aborted
DoReturn(w) ==
    /\ wpc[w] = "do"
    /\ \E r \in doResultsOf(ctxDone) : result' = [result EXCEPT ![w] = r]
    /\ wpc' = [wpc EXCEPT ![w] = "record"]
    /\ UNCHANGED <<cfgVars, waitingAtCancel, mainPc, exitCode, spawned, feedI, jobCh, jobClosed,
                   ctxDone, wgCount, limiter, tickersOn, mu, records, summary,
                   hist>>
    /\ UNCHANGED offRun

\* faulty variant: a response with an error status is recorded as a failure
recordOfStatusFails(res) ==
    IF res.kind = "error" THEN failedRecord(res.err)
    ELSE IF res.status >= 400 THEN failedRecord("server error")
    ELSE responseRecord(res.latency, res.status, res.size)

\* the record the worker builds from what client.Do returned
recordOf(res) ==
    IF res.kind = "error"
    THEN failedRecord(res.err)
    ELSE responseRecord(res.latency, res.status, res.size)

\* faulty variant: the request is issued again for the same token
afterAddRetry(res) == "do"

\* faulty variant: `return` instead of `continue` on the error branch
afterAddStopOnError(res) == IF res.kind = "error" THEN "exited" ELSE "range"

\* where the worker goes after out.add(rec): `continue` on the error branch,
\* the end of the loop body on the response branch
afterAdd(res) == "range"

\* the rest of the loop body: rec is built, out.add(rec) appends it under
\* the mutex, and the worker is back at the top of its loop
Record(w) ==
    /\ wpc[w] = "record"
    /\ mu = NoOwner
    /\ records' = appendRecord(records, recordOf(result[w]))
    /\ recBy' = Append(recBy, <<w, held[w]>>)
    /\ result' = [result EXCEPT ![w] = NoResult]
    /\ IF afterAdd(result[w]) = "exited"
       THEN workerExit(w)
       ELSE wpc' = [wpc EXCEPT ![w] = afterAdd(result[w])] /\ wgCount' = wgCount
    /\ UNCHANGED <<cfgVars, waitingAtCancel, mainPc, exitCode, spawned, feedI, jobCh, jobClosed,
                   ctxDone, limiter, tickersOn, mu, summary,
                   held, takenBy, enqueued, dequeued, released, permits>>
    /\ UNCHANGED offRun

WorkerStep(w) ==
    \/ RangeRecv(w)
    \/ RangeClosed(w)
    \/ CtxCheck(w)
    \/ LimiterRecv(w)
    \/ LimiterCancelled(w)
    \/ DoReturn(w)
    \/ Record(w)

MainStep ==
    \/ Validate
    \/ Spawn
    \/ SpawnDone
    \/ FeedSend
    \/ FeedCancelled
    \/ FeedClose
    \/ WaitAndStop
    \/ Summarize

Next ==
    \/ MainStep
    \/ Cancel
    \/ \E w \in Workers : LimiterTick(w)
    \/ \E w \in Workers : WorkerStep(w)

Init == RunInit /\ AddIdle /\ TickIdle /\ BodyIdle /\ LiveIdle

Spec == Init /\ [][Next]_vars


\* ================================================================== claims

\* ------------------------------------------------------------------ the run

AllExited ==
    spawned = concur /\ \A w \in Workers : w < concur => wpc[w] = "exited"
Tokens == 0 .. (totalReq - 1)
tokensRecorded == {recBy[i][2] : i \in 1 .. Len(recBy)}
tokensTaken == {t \in DOMAIN takenBy : takenBy[t] # NoOwner}
recordsBy(w) == Cardinality({i \in 1 .. Len(recBy) : recBy[i][1] = w})
NoDuplicateToken ==
    \A i, j \in 1 .. Len(recBy) : recBy[i][2] = recBy[j][2] => i = j

\* token t is held by a worker that is between receiving it and adding its
\* record
InProgress(t) ==
    \E w \in Workers :
        held[w] = t /\ wpc[w] \in {"ctxcheck", "limiter", "do", "record"}

\* token t was received by a worker and no record was or will be added for it
Dropped(t) == t \in tokensTaken /\ t \notin tokensRecorded /\ ~InProgress(t)

\* one record per job token, none lost and none duplicated
OnePerToken ==
    /\ Len(records) = totalReq
    /\ Len(recBy) = totalReq
    /\ tokensRecorded = Tokens
    /\ NoDuplicateToken

\* a measure every step of the run decreases: no run goes on forever
workerRank(pc) ==
    CASE pc = "exited" -> 0
      [] pc = "range" -> 1
      [] pc = "record" -> 2
      [] pc = "do" -> 3
      [] pc = "limiter" -> 5
      [] pc = "ctxcheck" -> 6
      [] pc = "unstarted" -> 3

mainRank(pc) ==
    CASE pc = "fatal" -> 0
      [] pc = "done" -> 1
      [] pc = "summarize" -> 2
      [] pc = "wait" -> 3
      [] pc = "feed" -> 4
      [] pc = "spawn" -> 5
      [] pc = "validate" -> 6

RECURSIVE sumOver(_, _)
sumOver(f, S) ==
    IF S = {} THEN 0
    ELSE LET x == CHOOSE y \in S : TRUE IN f[x] + sumOver(f, S \ {x})

Variant ==
    mainRank(mainPc)
    + (IF ctxDone THEN 0 ELSE 1)
    + 7 * (IF feedI < totalReq THEN totalReq - feedI ELSE 0)
    + 6 * Len(jobCh)
    + sumOver([w \in Workers |-> workerRank(wpc[w])], Workers)
    + sumOver([w \in Workers |->
                 IF tickersOn[w] /\ limiter[w] = 0 THEN 1 ELSE 0], Workers)

\* a step of main or of a worker can be taken
RunCanStep == ENABLED (MainStep \/ \E w \in Workers : WorkerStep(w))
\* a ticker can tick
TickCanStep == ENABLED (\E w \in Workers : LimiterTick(w))

\* C1: in a run with a valid configuration that is never cancelled (ctxDone
\* is still false; it is never reset), where every request returns and every
\* limiter keeps ticking, all workers exit (every step decreases Variant, and
\* while no signal has arrived the run can only stop with main done and every
\* worker exited), and once they have the accumulator holds exactly totalReq
\* records, one per job token, whatever the transport answered.
C1_AllRecorded ==
    /\ [][Variant' < Variant]_vars
    /\ [](~ctxDone /\ ~configInvalid(concur, totalReq)
            /\ ~RunCanStep /\ ~TickCanStep
            => mainPc = "done" /\ AllExited)
    /\ [](~ctxDone /\ ~configInvalid(concur, totalReq) /\ AllExited
            => OnePerToken)

C1_Witness ==
    /\ mainPc = "done" /\ AllExited /\ ~ctxDone /\ concur = 2 /\ totalReq = 2
    /\ OnePerToken
    /\ \E i, j \in 1 .. Len(records) : records[i].failed /\ ~records[j].failed

C4_PermitPerRecord ==
    rateLimited =>
        \A w \in Workers :
            /\ recordsBy(w) <= permits[w]
            /\ permits[w] <= released[w]
            /\ released[w] = permits[w] + limiter[w]
            /\ permits[w] =
                 recordsBy(w) + (IF wpc[w] \in {"do", "record"} THEN 1 ELSE 0)

C4_Witness ==
    /\ rateLimited
    /\ \E w \in Workers : recordsBy(w) = 2 /\ permits[w] = 2 /\ released[w] = 3

\* C5: once the cancellation signal has fired, the run cannot go on forever
\* (every step decreases Variant) and main or a worker can always take a
\* step, without waiting for a limiter tick, until the job queue is closed,
\* every worker has exited and main is done: nobody stays blocked on the job
\* queue or on a rate limiter.
C5_CancelTerminates ==
    /\ [][Variant' < Variant]_vars
    /\ [](ctxDone /\ ~RunCanStep => mainPc = "done" /\ jobClosed /\ AllExited)

C5_Witness ==
    /\ ctxDone /\ mainPc = "done" /\ jobClosed /\ AllExited
    /\ rateLimited
    /\ Len(records) < totalReq

\* C6: records in the accumulator <= tokens taken from the queue <= tokens
\* enqueued <= totalReq, in every state of a run, cancelled or not.
C6_Counts ==
    /\ Len(records) <= dequeued
    /\ dequeued <= enqueued
    /\ enqueued <= totalReq

C6_Witness ==
    /\ ctxDone
    /\ Len(records) < dequeued /\ dequeued < enqueued /\ enqueued < totalReq
    /\ AllExited

\* C8: when client.Do has returned an error, the worker's next step appends
\* one record with failed = TRUE and the error text for the token it holds,
\* and the worker is back at the top of its loop, ready for the next token.
C8_FailureRecorded ==
    [][\A w \in Workers :
          (wpc[w] = "record" /\ result[w].kind = "error" /\ wpc'[w] # "record")
          => /\ records' = Append(records, failedRecord(result[w].err))
             /\ failedRecord(result[w].err).failed
             /\ failedRecord(result[w].err).errMsg = result[w].err
             /\ result[w].err \in {ErrText, CtxErrText}
             /\ recBy' = Append(recBy, <<w, held[w]>>)
             /\ wpc'[w] = "range"]_vars

C8_Witness ==
    \E i, j \in 1 .. Len(records) :
        /\ i < j
        /\ recBy[i][1] = recBy[j][1]
        /\ records[i].failed /\ records[i].errMsg = ErrText
        /\ records[j].failed
        /\ Len(records) = totalReq

\* ------------------------------------------------------------------ add

MaxTasks == 2           \* K: concurrent callers of add
MaxAdds == 3            \* M: records each of them adds

Tasks == 1 .. MaxTasks

\* the k-th record task t adds
taskRecord(t, k) == [zeroRecord EXCEPT !.status = t, !.latency = k]

\* faulty variant: add takes no lock
lockFreeAlways(m) == TRUE

\* r.mu.Lock() can return
lockFree(m) == m = NoOwner

AddInit ==
    /\ concur = 0 /\ totalReq = 0 /\ rateLimited = FALSE
    /\ mainPc = "none" /\ exitCode = -1 /\ spawned = 0 /\ feedI = 0
    /\ jobCh = <<>> /\ jobClosed = FALSE /\ ctxDone = FALSE /\ wgCount = 0
    /\ wpc = [w \in Workers |-> "unstarted"]
    /\ limiter = [w \in Workers |-> 0]
    /\ tickersOn = [w \in Workers |-> FALSE]
    /\ mu = NoOwner
    /\ records = <<>>
    /\ summary = NoSummary
    /\ result = [w \in Workers |-> NoResult]
    /\ held = [w \in Workers |-> NoToken]
    /\ takenBy = [t \in 0 .. (MaxTotal - 1) |-> NoOwner]
    /\ recBy = <<>>
    /\ enqueued = 0 /\ dequeued = 0
    /\ released = [w \in Workers |-> 0]
    /\ permits = [w \in Workers |-> 0]
    /\ waitingAtCancel = {}
    /\ apc = [t \in Tasks |-> "call"]
    /\ tmp = [t \in Tasks |-> <<>>]
    /\ added = [t \in Tasks |-> 0]
    /\ TickIdle
    /\ BodyIdle
    /\ LiveIdle

\* what a step of add leaves alone
offAdd == <<concur, totalReq, rateLimited, mainPc, exitCode, spawned, feedI,
            jobCh, jobClosed, ctxDone, wgCount, wpc, limiter, tickersOn,
            summary, result, held, takenBy, recBy, enqueued, dequeued,
            released, permits, waitingAtCancel, tickVars, bodyVars, liveVars>>

\* r.mu.Lock()
AddLock(t) ==
    /\ apc[t] = "call"
    /\ added[t] < MaxAdds
    /\ lockFree(mu)
    /\ mu' = t
    /\ apc' = [apc EXCEPT ![t] = "read"]
    /\ UNCHANGED <<records, tmp, added, offAdd>>

\* append(r.records, rec) reads the slice r.records
AddRead(t) ==
    /\ apc[t] = "read"
    /\ tmp' = [tmp EXCEPT ![t] = records]
    /\ apc' = [apc EXCEPT ![t] = "write"]
    /\ UNCHANGED <<mu, records, added, offAdd>>

\* r.records = the slice read, with rec appended
AddWrite(t) ==
    /\ apc[t] = "write"
    /\ records' = appendRecord(tmp[t], taskRecord(t, added[t] + 1))
    /\ apc' = [apc EXCEPT ![t] = "unlock"]
    /\ UNCHANGED <<mu, tmp, added, offAdd>>

\* r.mu.Unlock(), and add returns
AddUnlock(t) ==
    /\ apc[t] = "unlock"
    /\ mu' = NoOwner
    /\ added' = [added EXCEPT ![t] = @ + 1]
    /\ apc' = [apc EXCEPT ![t] = "call"]
    /\ UNCHANGED <<records, tmp, offAdd>>

AddNext ==
    \E t \in Tasks : AddLock(t) \/ AddRead(t) \/ AddWrite(t) \/ AddUnlock(t)

AddSpec == AddInit /\ [][AddNext]_vars

\* the records task t has written so far
written(t) == added[t] + (IF apc[t] = "unlock" THEN 1 ELSE 0)
\* the records of task t in the accumulator, in its order
recordsOfTask(t) == SelectSeq(records, LAMBDA r : r.status = t)
isPrefix(a, b) == Len(a) <= Len(b) /\ \A i \in 1 .. Len(a) : a[i] = b[i]

\* C3: under any interleaving of add calls from MaxTasks tasks adding
\* MaxAdds records each, the accumulator holds every record whose add has
\* written it exactly once, each task's records in that task's call order,
\* and nothing else, so MaxTasks * MaxAdds records once every add has
\* returned; no add changes or removes a record already in the sequence.
C3_AppendOnlyLog ==
    /\ [](/\ Len(records) = sumOver([t \in Tasks |-> written(t)], Tasks)
          /\ \A t \in Tasks :
                recordsOfTask(t) = [k \in 1 .. written(t) |-> taskRecord(t, k)]
          /\ (\A t \in Tasks : added[t] = MaxAdds)
                => Len(records) = MaxTasks * MaxAdds)
    /\ [][isPrefix(records, records')]_vars

C3_Witness ==
    /\ \A t \in Tasks : added[t] = MaxAdds
    /\ Len(records) = MaxTasks * MaxAdds
    /\ records[1].status # records[2].status
    /\ records[1].status = records[3].status

\* ------------------------------------------------------------------ summarize, on any record list

MaxRecords == 3         \* longest record list drawn by SumInit

SumLatencies == {2, 7, 40}
SumResponses ==
    {[status |-> 200, size |-> 2], [status |-> 404, size |-> 0]}

\* the records a run can leave in the accumulator
SumRecords ==
    {failedRecord(ErrText)} \cup
    {responseRecord(l, r.status, r.size) : l \in SumLatencies, r \in SumResponses}

seqsUpTo(S, n) == UNION {[1 .. k -> S] : k \in 0 .. n}

\* main is about to call results.summarize() on some record list
SumInit ==
    /\ concur = 0 /\ totalReq = 0 /\ rateLimited = FALSE
    /\ mainPc = "summarize" /\ exitCode = -1 /\ spawned = 0 /\ feedI = 0
    /\ jobCh = <<>> /\ jobClosed = TRUE /\ ctxDone = FALSE /\ wgCount = 0
    /\ wpc = [w \in Workers |-> "unstarted"]
    /\ limiter = [w \in Workers |-> 0]
    /\ tickersOn = [w \in Workers |-> FALSE]
    /\ mu = NoOwner
    /\ records \in seqsUpTo(SumRecords, MaxRecords)
    /\ summary = NoSummary
    /\ result = [w \in Workers |-> NoResult]
    /\ held = [w \in Workers |-> NoToken]
    /\ takenBy = [t \in 0 .. (MaxTotal - 1) |-> NoOwner]
    /\ recBy = <<>>
    /\ enqueued = 0 /\ dequeued = 0
    /\ released = [w \in Workers |-> 0]
    /\ permits = [w \in Workers |-> 0]
    /\ waitingAtCancel = {}
    /\ AddIdle
    /\ TickIdle
    /\ BodyIdle
    /\ LiveIdle

SumSpec == SumInit /\ [][Summarize]_vars

anySuccess(recs) == \E i \in 1 .. Len(recs) : ~recs[i].failed
statFields ==
    {"minLatency", "maxLatency", "mean", "sizePerReq", "pcts", "bins"}

\* C7: summarize computes statistics only when a successful record exists:
\* with no record it reports "no records", with records but no successful
\* one it reports "all failed", and in both cases what it computed holds no
\* min/mean/max, percentile or histogram; it never panics (no index out of
\* range, no integer division by zero).
C7_StatsOnlyWithSuccess ==
    mainPc = "done" =>
        /\ summary.outcome # "panic"
        /\ Len(records) = 0 => summary.outcome = "no records"
        /\ (Len(records) > 0 /\ ~anySuccess(records))
              => summary.outcome = "all failed"
        /\ ~anySuccess(records) => DOMAIN summary \cap statFields = {}
        /\ anySuccess(records)
              => summary.outcome = "summary" /\ statFields \subseteq DOMAIN summary

C7_Witness ==
    /\ mainPc = "done"
    /\ Len(records) = 2
    /\ ~anySuccess(records)
    /\ summary.outcome = "all failed"

\* ------------------------------------------------------------------ JitterTicker

MaxInterval == 3        \* largest d drawn by TickInit
MaxJitter == 3          \* largest jitter drawn by TickInit
MaxTicks == 2           \* ticks the consumer asks for

Int63nPanic == "invalid argument to Int63n"
ClosePanic == "close of closed channel"

\* rand.Int63n(n) panics if n <= 0
int63nPanics(n) == n <= 0

\* jt.nextInterval(): the durations it can return
nextIntervals(min, max) ==
    LET delta == max - min
    IN  {min + r : r \in 0 .. (delta - 1)}

\* the state NewJitterTicker(d, jitter) returns in: the loop goroutine is
\* started and has not run yet
TickInit ==
    /\ concur = 0 /\ totalReq = 0 /\ rateLimited = FALSE
    /\ mainPc = "none" /\ exitCode = -1 /\ spawned = 0 /\ feedI = 0
    /\ jobCh = <<>> /\ jobClosed = FALSE /\ ctxDone = FALSE /\ wgCount = 0
    /\ wpc = [w \in Workers |-> "unstarted"]
    /\ limiter = [w \in Workers |-> 0]
    /\ tickersOn = [w \in Workers |-> FALSE]
    /\ mu = NoOwner
    /\ records = <<>>
    /\ summary = NoSummary
    /\ result = [w \in Workers |-> NoResult]
    /\ held = [w \in Workers |-> NoToken]
    /\ takenBy = [t \in 0 .. (MaxTotal - 1) |-> NoOwner]
    /\ recBy = <<>>
    /\ enqueued = 0 /\ dequeued = 0
    /\ released = [w \in Workers |-> 0]
    /\ permits = [w \in Workers |-> 0]
    /\ waitingAtCancel = {}
    /\ AddIdle
    /\ BodyIdle
    /\ LiveIdle
    /\ jtD \in 1 .. MaxInterval
    /\ jtJitter \in 0 .. MaxJitter
    /\ jtMin = jtD - jtJitter
    /\ jtMax = jtD + jtJitter
    /\ tpc = "start"
    /\ timer = "none"
    /\ wait = 0
    /\ stopClosed = FALSE
    /\ jtPanic = "none"
    /\ rcv = "idle"
    /\ got = 0
    /\ gotAfterStop = 0

jtCfg == <<jtD, jtJitter, jtMin, jtMax>>
offTick == <<runVars, addVars, bodyVars, liveVars>>

\* t = time.NewTimer(jt.nextInterval()), at loop's start and after a send
newTimer ==
    IF int63nPanics(jtMax - jtMin)
    THEN /\ jtPanic' = Int63nPanic
         /\ tpc' = "panicked"
         /\ UNCHANGED <<timer, wait>>
    ELSE /\ \E d \in nextIntervals(jtMin, jtMax) : wait' = d
         /\ timer' = "armed"
         /\ tpc' = "select"
         /\ UNCHANGED jtPanic

\* loop: t := time.NewTimer(jt.nextInterval())
LoopStart ==
    /\ jtPanic = "none"
    /\ tpc = "start"
    /\ newTimer
    /\ UNCHANGED <<jtCfg, stopClosed, rcv, got, gotAfterStop, offTick>>

\* the runtime fires t: a value is put on t.C
TimerFire ==
    /\ jtPanic = "none"
    /\ timer = "armed"
    /\ timer' = "fired"
    /\ UNCHANGED <<jtCfg, tpc, wait, stopClosed, jtPanic, rcv, got,
                   gotAfterStop, offTick>>

\* loop's select, case <-jt.stop: t.Stop(); return
LoopStop ==
    /\ jtPanic = "none"
    /\ tpc = "select"
    /\ stopClosed
    /\ timer' = "stopped"
    /\ tpc' = "exited"
    /\ UNCHANGED <<jtCfg, wait, stopClosed, jtPanic, rcv, got, gotAfterStop,
                   offTick>>

\* loop's select, case <-t.C
LoopTick ==
    /\ jtPanic = "none"
    /\ tpc = "select"
    /\ timer = "fired"
    /\ timer' = "drained"
    /\ tpc' = "send"
    /\ UNCHANGED <<jtCfg, wait, stopClosed, jtPanic, rcv, got, gotAfterStop,
                   offTick>>

\* the inner select, case jt.C <- time.Now(): a consumer is waiting, the
\* tick is delivered and the timer is scheduled again
LoopSend ==
    /\ jtPanic = "none"
    /\ tpc = "send"
    /\ rcv = "waiting"
    /\ rcv' = "idle"
    /\ got' = got + 1
    /\ gotAfterStop' = gotAfterStop + (IF stopClosed THEN 1 ELSE 0)
    /\ newTimer
    /\ UNCHANGED <<jtCfg, stopClosed, offTick>>

\* the inner select, default: no consumer is waiting, the tick is skipped
\* and the timer is left as it is
LoopSkip ==
    /\ jtPanic = "none"
    /\ tpc = "send"
    /\ rcv # "waiting"
    /\ tpc' = "select"
    /\ UNCHANGED <<jtCfg, timer, wait, stopClosed, jtPanic, rcv, got,
                   gotAfterStop, offTick>>

\* jt.Stop(): close(jt.stop)
Stop ==
    /\ jtPanic = "none"
    /\ IF stopClosed
       THEN jtPanic' = ClosePanic /\ UNCHANGED stopClosed
       ELSE stopClosed' = TRUE /\ UNCHANGED jtPanic
    /\ UNCHANGED <<jtCfg, tpc, timer, wait, rcv, got, gotAfterStop, offTick>>

\* a consumer starts to wait in <-jt.C
RecvWait ==
    /\ jtPanic = "none"
    /\ rcv = "idle"
    /\ got < MaxTicks
    /\ rcv' = "waiting"
    /\ UNCHANGED <<jtCfg, tpc, timer, wait, stopClosed, jtPanic, got,
                   gotAfterStop, offTick>>

\* the consumer's select takes its time.After case instead
RecvTimeout ==
    /\ jtPanic = "none"
    /\ rcv = "waiting"
    /\ rcv' = "idle"
    /\ UNCHANGED <<jtCfg, tpc, timer, wait, stopClosed, jtPanic, got,
                   gotAfterStop, offTick>>

TickNext ==
    \/ LoopStart
    \/ TimerFire
    \/ LoopStop
    \/ LoopTick
    \/ LoopSend
    \/ LoopSkip
    \/ Stop
    \/ RecvWait
    \/ RecvTimeout

TickSpec == TickInit /\ [][TickNext]_vars

\* C9: for every d and jitter with 0 <= jitter < d, scheduling a wait raises
\* no error and every wait scheduled lies in [d - jitter, d + jitter].
C9_WaitInRange ==
    (0 <= jtJitter /\ jtJitter < jtD) =>
        /\ jtPanic # Int63nPanic
        /\ timer \in {"armed", "fired"}
              => jtD - jtJitter <= wait /\ wait <= jtD + jtJitter

\* the waits the code does schedule are in range
C9_Reached ==
    /\ 0 < jtJitter /\ jtJitter < jtD
    /\ timer = "armed" /\ wait = jtD + jtJitter - 1 /\ got = 1

\* C10: once Stop() has returned, no tick is delivered on jt.C (stated for
\* the tickers created with 0 < jitter < d).
C10_NoTickAfterStop ==
    [][(0 < jtJitter /\ jtJitter < jtD /\ stopClosed) => got' = got]_vars

C10_Reached == stopClosed /\ tpc = "exited" /\ rcv = "waiting"

\* the ticker was created with 0 < jitter < d
jitterValid == 0 < jtJitter /\ jtJitter < jtD

\* C11: Stop is idempotent: a second Stop(), called after the first has
\* returned, raises no error (stated for tickers with 0 < jitter < d).
C11_StopIdempotent == jitterValid => jtPanic # ClosePanic

\* one Stop() leaves the ticker stopped without an error
C11_Reached == jitterValid /\ stopClosed /\ tpc = "exited" /\ jtPanic = "none"

\* the loop goroutine and the Go runtime's timer are always scheduled; the
\* consumer and the caller of Stop are not obliged to do anything
TickFairSpec ==
    /\ TickSpec
    /\ WF_vars(LoopStart)
    /\ WF_vars(TimerFire)
    /\ WF_vars(LoopStop)
    /\ WF_vars(LoopTick)
    /\ WF_vars(LoopSend)
    /\ WF_vars(LoopSkip)

\* a tick has been dropped: the loop took <-t.C, found no consumer, and is
\* back in its outer select
tickDropped == tpc = "select" /\ timer = "drained"

\* C12: after a tick was dropped, a consumer that waits on jt.C eventually
\* receives a tick, unless Stop is called or the consumer gives up waiting.
C12_EmitsAfterDrop ==
    (jitterValid /\ tickDropped /\ rcv = "waiting" /\ ~stopClosed)
        ~> (stopClosed \/ rcv = "idle")

\* a consumer waits on a ticker that dropped a tick and was not stopped
C12_Reached ==
    jitterValid /\ tickDropped /\ rcv = "waiting" /\ ~stopClosed /\ got = 1

\* C13: no ticker ever schedules a wait that is zero or negative, whatever
\* d and jitter it was created with.
C13_WaitPositive == timer \in {"armed", "fired"} => wait > 0

\* a ticker created with jitter >= d is running
C13_Reached == jtJitter >= jtD /\ timer = "armed" /\ jtPanic = "none"

\* ------------------------------------------------------------------ statistics

\* the sorted successful latencies summarize works on
sortedLatencies == sortAsc(successLatencies(records))

\* summarize has printed a summary
summarized == mainPc = "done" /\ summary.outcome = "summary"

\* C14: the percentile function is monotonic: on the sorted successful
\* latencies, for all p1 < p2 between 0% and 100%, pct(p1) <= pct(p2), and
\* every percentile lies between the least and the greatest latency; the
\* percentiles summarize reports are these values.
C14_PctMonotonic ==
    summarized =>
        LET lat == sortedLatencies
        IN  /\ \A p1, p2 \in 0 .. 100 :
                  p1 < p2 => pct(lat, p1) <= pct(lat, p2)
            /\ \A p \in 0 .. 100 :
                  lat[1] <= pct(lat, p) /\ pct(lat, p) <= lat[Len(lat)]
            /\ \A p \in Percentiles : summary.pcts[p] = pct(lat, p)

C14_Witness ==
    /\ summarized
    /\ Len(sortedLatencies) = 3
    /\ summary.pcts[10] < summary.pcts[25]
    /\ summary.pcts[25] < summary.pcts[50]
    /\ summary.pcts[50] = summary.pcts[99]
    /\ summary.pcts[99] = summary.maxLatency

\* C15: every successful latency is counted in exactly one of the 11 bins,
\* with a bin index in 0 .. 10, so the bin counts sum to the number of
\* successful records; also when all latencies are equal and when max - min
\* is smaller than 10.
C15_BinsSum ==
    summarized =>
        LET lat == sortedLatencies
            binSize == binSizeOf(summary.minLatency, summary.maxLatency)
        IN  /\ DOMAIN summary.bins = 0 .. 10
            /\ \A i \in 1 .. Len(lat) :
                  binIdxOf(lat[i], summary.minLatency, binSize) \in 0 .. 10
            /\ sumOver(summary.bins, 0 .. 10) = Len(lat)
            /\ Len(lat) = Len(records) - summary.failed

\* the greatest latency falls beyond the last bin and is clamped into it
C15_Witness ==
    /\ summarized
    /\ summary.minLatency = 2 /\ summary.maxLatency = 40
    /\ Len(sortedLatencies) = 3
    /\ summary.bins[0] = 2 /\ summary.bins[10] = 1

\* the count summarize holds for status code s
countOf(s) ==
    IF s \in DOMAIN summary.statusCount THEN summary.statusCount[s] ELSE 0

\* C16: the status-code distribution summarize reports counts every record,
\* failed ones included under code 0: for each code the count is the number
\* of records with that status, and the counts sum to the number of records.
C16_StatusCounts ==
    summarized =>
        /\ \A i \in 1 .. Len(records) : records[i].failed => records[i].status = 0
        /\ \A s \in {0} \cup {r.status : r \in SumRecords} :
              countOf(s) = Cardinality({i \in 1 .. Len(records) :
                                           records[i].status = s})
        /\ sumOver(summary.statusCount, DOMAIN summary.statusCount)
              = Len(records)

C16_Witness ==
    /\ summarized
    /\ Len(records) = 3
    /\ countOf(0) = 1 /\ countOf(200) = 1 /\ countOf(404) = 1

\* ------------------------------------------------------------------ request bodies

MaxSenders == 2         \* workers sending concurrently
MaxSends == 2           \* requests each of them sends
MaxBody == 2            \* longest body, in bytes

Senders == 0 .. (MaxSenders - 1)

\* bodyBytes: byte i of the body is written i
bodyBytes(n) == [i \in 1 .. n |-> i]

\* req.Body == nil
NoBody == <<-1, -1>>
\* the reader main put in reqTpl.Body
TplBody == <<-1, 0>>

\* reqTpl.Body: set by main only if len(bodyBytes) > 0
tplBodyOf(n) == IF n > 0 THEN TplBody ELSE NoBody

\* workers start with the request template main built
BodyInit ==
    /\ concur = 0 /\ totalReq = 0 /\ rateLimited = FALSE
    /\ mainPc = "none" /\ exitCode = -1 /\ spawned = 0 /\ feedI = 0
    /\ jobCh = <<>> /\ jobClosed = FALSE /\ ctxDone = FALSE /\ wgCount = 0
    /\ wpc = [w \in Workers |-> "unstarted"]
    /\ limiter = [w \in Workers |-> 0]
    /\ tickersOn = [w \in Workers |-> FALSE]
    /\ mu = NoOwner
    /\ records = <<>>
    /\ summary = NoSummary
    /\ result = [w \in Workers |-> NoResult]
    /\ held = [w \in Workers |-> NoToken]
    /\ takenBy = [t \in 0 .. (MaxTotal - 1) |-> NoOwner]
    /\ recBy = <<>>
    /\ enqueued = 0 /\ dequeued = 0
    /\ released = [w \in Workers |-> 0]
    /\ permits = [w \in Workers |-> 0]
    /\ waitingAtCancel = {}
    /\ AddIdle
    /\ TickIdle
    /\ LiveIdle
    /\ bodyLen \in 0 .. MaxBody
    /\ readers = [r \in {tplBodyOf(bodyLen)} \ {NoBody} |-> 0]
    /\ breq = [w \in Senders |-> NoBody]
    /\ bpc = [w \in Senders |-> "clone"]
    /\ bgot = [w \in Senders |-> <<>>]
    /\ bsent = [w \in Senders |-> 0]
    /\ seen = [w \in Senders |-> <<>>]

offBody == <<runVars, addVars, tickVars, liveVars>>

\* req := reqTpl.Clone(ctx): a shallow copy, req.Body is reqTpl.Body
BodyClone(w) ==
    /\ bpc[w] = "clone"
    /\ breq' = [breq EXCEPT ![w] = tplBodyOf(bodyLen)]
    /\ bpc' = [bpc EXCEPT ![w] = "fresh"]
    /\ UNCHANGED <<bodyLen, readers, bgot, bsent, seen, offBody>>

\* faulty variant: the cloned request keeps the template's reader
getBodySkipped(body) == FALSE

\* if req.Body != nil
getsBody(body) == body # NoBody

\* if req.Body != nil { req.Body.Close(); req.Body, _ = reqTpl.GetBody() }:
\* GetBody returns a new reader over bodyBytes, its cursor at 0
BodyFresh(w) ==
    /\ bpc[w] = "fresh"
    /\ IF getsBody(breq[w])
       THEN LET r == <<w, bsent[w]>>
            IN  /\ readers' = [x \in DOMAIN readers \cup {r} |->
                                  IF x = r THEN 0 ELSE readers[x]]
                /\ breq' = [breq EXCEPT ![w] = r]
       ELSE UNCHANGED <<readers, breq>>
    /\ bpc' = [bpc EXCEPT ![w] = "do"]
    /\ UNCHANGED <<bodyLen, bgot, bsent, seen, offBody>>

\* client.Do(req): the transport reads req.Body, one Read at a time;
\* bytesReaderT.Read copies what the buffer takes from r.b[r.i:] and
\* advances r.i
BodyRead(w) ==
    /\ bpc[w] = "do"
    /\ breq[w] # NoBody
    /\ readers[breq[w]] < bodyLen
    /\ \E n \in 1 .. (bodyLen - readers[breq[w]]) :
          /\ bgot' = [bgot EXCEPT ![w] =
                        @ \o [i \in 1 .. n |->
                                bodyBytes(bodyLen)[readers[breq[w]] + i]]]
          /\ readers' = [readers EXCEPT ![breq[w]] = @ + n]
    /\ UNCHANGED <<bodyLen, breq, bpc, bsent, seen, offBody>>

\* client.Do(req): Read returns io.EOF (or there is no body); the request
\* has been sent with what was read, and the worker loops
BodySent(w) ==
    /\ bpc[w] = "do"
    /\ breq[w] # NoBody => readers[breq[w]] >= bodyLen
    /\ seen' = [seen EXCEPT ![w] = Append(@, bgot[w])]
    /\ bgot' = [bgot EXCEPT ![w] = <<>>]
    /\ bsent' = [bsent EXCEPT ![w] = @ + 1]
    /\ readers' = [x \in DOMAIN readers \ ({breq[w]} \ {TplBody}) |-> readers[x]]
    /\ breq' = [breq EXCEPT ![w] = NoBody]
    /\ bpc' = [bpc EXCEPT ![w] = IF bsent[w] + 1 < MaxSends THEN "clone" ELSE "done"]
    /\ UNCHANGED <<bodyLen, offBody>>

BodyNext ==
    \E w \in Senders :
        \/ BodyClone(w)
        \/ BodyFresh(w)
        \/ BodyRead(w)
        \/ BodySent(w)

BodySpec == BodyInit /\ [][BodyNext]_vars

\* C17: every request sent for a template with a body carries a complete,
\* fresh copy of the body: while a request is being sent its reader is its
\* own (not the template's, not another request's) and what has been read
\* of it is the body from its start; every request sent, the second and
\* later ones of a worker and those of concurrent workers, carried the whole
\* body.
C17_FreshBody ==
    /\ \A w \in Senders :
          (bpc[w] = "do" /\ bodyLen > 0) =>
              /\ breq[w] \notin {NoBody, TplBody}
              /\ \A v \in Senders \ {w} : breq[v] # breq[w]
              /\ bgot[w] = SubSeq(bodyBytes(bodyLen), 1, readers[breq[w]])
    /\ \A w \in Senders : \A k \in 1 .. Len(seen[w]) :
          seen[w][k] = bodyBytes(bodyLen)

\* two workers are half way through the body at the same time, one of them
\* in its second request
C17_Witness ==
    /\ bodyLen = 2
    /\ bpc[0] = "do" /\ bpc[1] = "do"
    /\ Len(bgot[0]) = 1 /\ Len(bgot[1]) = 1
    /\ bsent[0] = 1 /\ seen[0] = <<bodyBytes(2)>>

\* ------------------------------------------------------------------ the run: configuration, exit status, limiter

\* C18: with concurrency <= 0, totalRequests <= 0 or concurrency >
\* totalRequests, the run ends with a fatal error (exit status 1, nothing
\* runs afterwards) before any worker is started, any token is enqueued or
\* any request is issued.
C18_InvalidConfigFatal ==
    (concur <= 0 \/ totalReq <= 0 \/ concur > totalReq) =>
        /\ mainPc \in {"validate", "fatal"}
        /\ mainPc = "fatal" => exitCode = 1 /\ ~ENABLED Next
        /\ spawned = 0 /\ wgCount = 0
        /\ \A w \in Workers :
              wpc[w] = "unstarted" /\ ~tickersOn[w] /\ result[w] = NoResult
        /\ enqueued = 0 /\ dequeued = 0 /\ jobCh = <<>>
        /\ records = <<>>

C18_Witness ==
    /\ mainPc = "fatal" /\ exitCode = 1
    /\ 0 < totalReq /\ totalReq < concur

\* C19: the exit status of a run that reached summarization tells whether
\* any record was collected: a run with at least one record exits with 0
\* whether its requests succeeded or failed, a run with no record exits with
\* another status.
C19_ExitReflectsRecords ==
    (mainPc = "done" /\ summary.outcome # "none") =>
        /\ Len(records) > 0 => exitCode = 0
        /\ Len(records) = 0 => exitCode # 0

\* a run reached summarization without a record
C19_Reached ==
    /\ mainPc = "done" /\ records = <<>> /\ summary.outcome = "no records"
    /\ ~configInvalid(concur, totalReq)

\* C20: a worker that was waiting for a permit (blocked in the limiter
\* select, no tick buffered) when the signal arrived leaves the select only
\* by exiting: it issues no request for the token it holds and adds no
\* record, also when a tick arrives after the cancellation.
C20_NoRequestAfterCancel ==
    [][\A w \in waitingAtCancel :
          wpc[w] = "limiter" =>
              /\ wpc'[w] \in {"limiter", "exited"}
              /\ permits'[w] = permits[w]
              /\ \A i \in 1 .. Len(recBy') : recBy'[i] # <<w, held[w]>>]_vars

\* a worker that was waiting at the cancellation gave up its token
C20_Reached ==
    \E w \in waitingAtCancel :
        /\ wpc[w] = "exited" /\ held[w] # NoToken /\ Dropped(held[w])
        /\ limiter[w] = 1

\* ------------------------------------------------------------------ the run: cancellation

\* C21: once the signal has arrived the feeder enqueues no further token,
\* also when the job queue has room.
C21_NoEnqueueAfterCancel == [][ctxDone => enqueued' = enqueued]_vars

\* the feeder took the cancellation while the queue had room
C21_Reached ==
    /\ ctxDone /\ jobClosed
    /\ enqueued < totalReq
    /\ Len(jobCh) < concur

\* C22: a worker waiting for a job token once the signal has arrived can
\* exit at once: it needs neither a further token nor the queue's closing.
C22_WaitingWorkerExits ==
    \A w \in Workers :
        (ctxDone /\ wpc[w] = "range" /\ jobCh = <<>> /\ ~jobClosed)
            => ENABLED (WorkerStep(w) /\ wpc'[w] = "exited")

\* a worker that waited for a token through the cancellation has exited,
\* after the queue was closed
C22_Reached ==
    /\ ctxDone /\ jobClosed /\ dequeued = 0 /\ enqueued = 0
    /\ \E w \in Workers : wpc[w] = "exited"

\* C23: cancellation does not abort a request already under way: in a run
\* without a rate limit (where a worker that is executing a request after
\* the signal was executing it when the signal arrived), what client.Do
\* returns is the transport's own answer, never an error caused by the
\* cancellation, and that is what the worker records.
C23_InFlightNotAborted ==
    ~rateLimited =>
        /\ \A w \in Workers : result[w] \in DoResults \cup {NoResult}
        /\ \A i \in 1 .. Len(records) : records[i].errMsg # CtxErrText

\* the request under way at the cancellation completed and was recorded
C23_Reached ==
    /\ ~rateLimited /\ ctxDone /\ mainPc = "done"
    /\ Len(records) = 1 /\ ~records[1].failed
    /\ enqueued = 1 /\ totalReq > 1

\* ------------------------------------------------------------------ the run: summarization and the queue

\* C24: summarization starts only after every worker has exited: from the
\* moment main has passed wg.Wait() every started worker has exited, nobody
\* holds the accumulator's mutex, and no step changes the record list, so
\* summarize reads the final sequence and what it reports is computed from
\* it.
C24_SummarizeAfterWorkers ==
    /\ [](mainPc \in {"summarize", "done"} =>
            /\ \A w \in Workers : wpc[w] \in {"unstarted", "exited"}
            /\ AllExited
            /\ wgCount = 0
            /\ mu = NoOwner)
    /\ [][(mainPc \in {"summarize", "done"}) => (records' = records)]_vars
    /\ [](mainPc = "done" => summary = summarize(records))

C24_Witness ==
    /\ mainPc = "done"
    /\ concur = 2 /\ Len(records) = 2
    /\ summary.outcome = "summary" /\ summary.total = 2
    /\ recordsBy(0) > 0 /\ recordsBy(1) > 0

\* C25: the feeder closes the job queue exactly once (it is closed by the
\* feeder's step out of the feed loop and stays closed), only after its last
\* enqueue (nothing is sent once it is closed), and if the run has not been
\* cancelled when the feeder closes the queue it has enqueued exactly
\* totalReq tokens.
C25_CloseOnceAfterFeeding ==
    /\ [][jobClosed => (jobClosed' /\ enqueued' = enqueued)]_vars
    /\ [][(~jobClosed /\ jobClosed') =>
            /\ mainPc = "feed" /\ mainPc' = "wait"
            /\ feedI >= totalReq
            /\ (~ctxDone => enqueued = totalReq)]_vars
    /\ [](jobClosed <=> mainPc \in {"wait", "summarize", "done"})
    /\ [](enqueued <= totalReq)

C25_Witness ==
    /\ jobClosed /\ ~ctxDone /\ mainPc = "wait"
    /\ totalReq = 3 /\ enqueued = 3 /\ Len(jobCh) = 1

\* ------------------------------------------------------------------ the record of one request

MaxSize == 2            \* most body bytes of a response
MaxLatency == 3         \* longest latency of a response

RecStatuses == {200, 301, 404, 500}

\* what client.Do can have returned
RecResults ==
    {[kind |-> "error", err |-> e] : e \in {ErrText, CtxErrText}} \cup
    {[kind |-> "response", status |-> st, size |-> n, latency |-> l] :
        st \in RecStatuses, n \in 0 .. MaxSize, l \in 1 .. MaxLatency}

\* a run with one worker and one request: client.Do has just returned to the
\* worker, main is in wg.Wait()
RecInit ==
    /\ concur = 1 /\ totalReq = 1 /\ rateLimited = FALSE
    /\ mainPc = "wait" /\ exitCode = -1 /\ spawned = 1 /\ feedI = 1
    /\ jobCh = <<>> /\ jobClosed = TRUE /\ ctxDone = FALSE /\ wgCount = 1
    /\ wpc = [w \in Workers |-> IF w = 0 THEN "record" ELSE "unstarted"]
    /\ limiter = [w \in Workers |-> 0]
    /\ tickersOn = [w \in Workers |-> FALSE]
    /\ mu = NoOwner
    /\ records = <<>>
    /\ summary = NoSummary
    /\ \E r \in RecResults :
          result = [w \in Workers |-> IF w = 0 THEN r ELSE NoResult]
    /\ held = [w \in Workers |-> IF w = 0 THEN 0 ELSE NoToken]
    /\ takenBy = [t \in 0 .. (MaxTotal - 1) |-> IF t = 0 THEN 0 ELSE NoOwner]
    /\ recBy = <<>>
    /\ enqueued = 1 /\ dequeued = 1
    /\ released = [w \in Workers |-> 0]
    /\ permits = [w \in Workers |-> 0]
    /\ waitingAtCancel = {}
    /\ AddIdle
    /\ TickIdle
    /\ BodyIdle
    /\ LiveIdle

RecNext == \E w \in Workers : Record(w) \/ RangeClosed(w)

RecSpec == RecInit /\ [][RecNext]_vars

\* C26: a record has failed = TRUE exactly when no response was obtained: a
\* transport error gives failed = TRUE, status 0, size 0 and the error's
\* non-empty message; every response, 4xx and 5xx included, gives failed =
\* FALSE, the response's status, the bytes drained as size, and an empty
\* message.
C26_FailedMeansNoResponse ==
    /\ [][\A w \in Workers :
            (wpc[w] = "record" /\ wpc'[w] # "record") =>
                LET rec == records'[Len(records')]
                    res == result[w]
                IN  /\ Len(records') = Len(records) + 1
                    /\ rec.failed <=> res.kind = "error"
                    /\ res.kind = "error" =>
                          /\ rec.status = 0 /\ rec.size = 0
                          /\ rec.errMsg = res.err /\ rec.errMsg # ""
                    /\ res.kind = "response" =>
                          /\ rec.status = res.status /\ rec.size = res.size
                          /\ rec.latency = res.latency
                          /\ rec.errMsg = ""]_vars
    /\ [](\A i \in 1 .. Len(records) :
            /\ records[i].failed <=> records[i].errMsg # ""
            /\ records[i].failed => records[i].status = 0 /\ records[i].size = 0
            /\ ~records[i].failed => records[i].status \in RecStatuses)

\* a 5xx response was recorded as a response
C26_Witness ==
    /\ Len(records) = 1
    /\ ~records[1].failed /\ records[1].status = 500 /\ records[1].size = 2
    /\ records[1].errMsg = ""
    /\ wpc[0] = "exited"

\* ------------------------------------------------------------------ LiveMonitor

MaxTime == 3            \* the clock stops here
MaxArrivals == 3        \* records that arrive on lm.recordCh
MaxWindow == 2          \* largest windowSize

\* the records that arrive
LiveRecords ==
    {failedRecord(ErrText), responseRecord(1, 200, 2), responseRecord(3, 200, 2)}

\* a float64 quotient, kept exact
ratio(n, d) == [num |-> n, den |-> d]
zeroRatio == ratio(0, 1)

\* updateMetrics: rps
rpsOf(n, timeDiff) == IF timeDiff > 0 THEN ratio(n, timeDiff) ELSE zeroRatio

\* updateMetrics: avgLatency, over the samples that are not failed
avgLatencyOf(samples) ==
    LET ok == SelectSeq(samples, LAMBDA r : ~r.failed)
    IN  IF Len(ok) > 0
        THEN ratio(sumSeq([i \in 1 .. Len(ok) |-> ok[i].latency]), Len(ok))
        ELSE zeroRatio

\* updateMetrics: the data point
pointOf(samples, lastTime, now) ==
    [timestamp |-> now,
     latency   |-> avgLatencyOf(samples),
     rps       |-> rpsOf(Len(samples), now - lastTime)]

\* updateMetrics: trim old points outside the window; the loop stops at the
\* first point whose timestamp is after the cutoff
RECURSIVE trimOld(_, _)
trimOld(points, cutoff) ==
    IF points = <<>> THEN <<>>
    ELSE IF Head(points).timestamp > cutoff THEN points
    ELSE trimOld(Tail(points), cutoff)

\* faulty variant: the buffer is not cleared after it was processed
keepBuffer(samples) == samples

\* samples = samples[:0]
clearBuffer(samples) == <<>>

\* -live is set: newLiveMetrics has returned and processSamples starts
LiveInit ==
    /\ concur = 0 /\ totalReq = 0 /\ rateLimited = FALSE
    /\ mainPc = "none" /\ exitCode = -1 /\ spawned = 0 /\ feedI = 0
    /\ jobCh = <<>> /\ jobClosed = FALSE /\ ctxDone = FALSE /\ wgCount = 0
    /\ wpc = [w \in Workers |-> "unstarted"]
    /\ limiter = [w \in Workers |-> 0]
    /\ tickersOn = [w \in Workers |-> FALSE]
    /\ mu = NoOwner
    /\ records = <<>>
    /\ summary = NoSummary
    /\ result = [w \in Workers |-> NoResult]
    /\ held = [w \in Workers |-> NoToken]
    /\ takenBy = [t \in 0 .. (MaxTotal - 1) |-> NoOwner]
    /\ recBy = <<>>
    /\ enqueued = 0 /\ dequeued = 0
    /\ released = [w \in Workers |-> 0]
    /\ permits = [w \in Workers |-> 0]
    /\ waitingAtCancel = {}
    /\ AddIdle
    /\ TickIdle
    /\ BodyIdle
    /\ lmNow = 0
    /\ lmWindow \in 1 .. MaxWindow
    /\ lmPc = "select"
    /\ lmSamples = <<>>
    /\ lmLast = 0
    /\ lmPoints = <<>>
    /\ lmCount = 0
    /\ lmRendered = [at |-> 0, points |-> <<>>]
    /\ lmIds = <<>>
    /\ lmLog = <<>>
    /\ lmBatches = <<>>

offLive == <<runVars, addVars, tickVars, bodyVars>>

\* time passes
LiveClock ==
    /\ lmPc = "select"
    /\ lmNow < MaxTime
    /\ lmNow' = lmNow + 1
    /\ UNCHANGED <<lmWindow, lmPc, lmSamples, lmLast, lmPoints, lmCount,
                   lmRendered, lmIds, lmLog, lmBatches, offLive>>

\* case rec, ok := <-lm.recordCh, ok: samples = append(samples, rec)
LiveRecv ==
    /\ lmPc = "select"
    /\ Len(lmLog) < MaxArrivals
    /\ \E rec \in LiveRecords :
          /\ lmSamples' = Append(lmSamples, rec)
          /\ lmLog' = Append(lmLog, rec)
    /\ lmIds' = Append(lmIds, Len(lmLog) + 1)
    /\ UNCHANGED <<lmNow, lmWindow, lmPc, lmLast, lmPoints, lmCount,
                   lmRendered, lmBatches, offLive>>

\* case <-ticker.C: the buffered samples, if any, go through updateMetrics
\* (count, new point, trim) and the buffer is cleared; then renderGraphs
\* reads lm.points
LiveTick ==
    /\ lmPc = "select"
    /\ IF Len(lmSamples) > 0
       THEN /\ lmCount' = lmCount + Len(lmSamples)
            /\ lmPoints' = trimOld(Append(lmPoints,
                                          pointOf(lmSamples, lmLast, lmNow)),
                                   lmNow - lmWindow)
            /\ lmBatches' = Append(lmBatches,
                                   [point |-> pointOf(lmSamples, lmLast, lmNow),
                                    ids   |-> lmIds])
            /\ lmSamples' = clearBuffer(lmSamples)
            /\ lmIds' = clearBuffer(lmIds)
            /\ lmLast' = lmNow
       ELSE UNCHANGED <<lmCount, lmPoints, lmBatches, lmSamples, lmIds, lmLast>>
    /\ lmRendered' = [at |-> lmNow, points |-> lmPoints']
    /\ UNCHANGED <<lmNow, lmWindow, lmPc, lmLog, offLive>>

\* case rec, ok := <-lm.recordCh, !ok: the channel is closed, return
LiveClosed ==
    /\ lmPc = "select"
    /\ lmPc' = "closed"
    /\ UNCHANGED <<lmNow, lmWindow, lmSamples, lmLast, lmPoints, lmCount,
                   lmRendered, lmIds, lmLog, lmBatches, offLive>>

\* case <-ctx.Done(): return
LiveCancelled ==
    /\ lmPc = "select"
    /\ lmPc' = "cancelled"
    /\ UNCHANGED <<lmNow, lmWindow, lmSamples, lmLast, lmPoints, lmCount,
                   lmRendered, lmIds, lmLog, lmBatches, offLive>>

LiveNext ==
    \/ LiveClock
    \/ LiveRecv
    \/ LiveTick
    \/ LiveClosed
    \/ LiveCancelled

LiveSpec == LiveInit /\ [][LiveNext]_vars

\* C27: on every sampling tick, also one on which no record arrived, the
\* points at or before now - windowSize are discarded: every point the
\* charts are rendered from is newer than now - windowSize.
C27_RenderedInWindow ==
    \A i \in 1 .. Len(lmRendered.points) :
        lmRendered.points[i].timestamp > lmRendered.at - lmWindow

\* a tick with new samples discarded an old point before the charts were
\* rendered
C27_Reached ==
    /\ Len(lmBatches) = 2 /\ Len(lmPoints) = 1
    /\ lmRendered = [at |-> lmNow, points |-> lmPoints]
    /\ lmPoints[1].timestamp = lmNow

\* the arrival numbers of all the points ever appended, in order
RECURSIVE batchIds(_)
batchIds(bs) == IF bs = <<>> THEN <<>> ELSE Head(bs).ids \o batchIds(Tail(bs))

\* the mean latency of the successful records among the arrivals `ids`
meanOfBatch(ids) ==
    LET ok == {i \in 1 .. Len(ids) : ~lmLog[ids[i]].failed}
    IN  IF ok = {} THEN zeroRatio
        ELSE ratio(sumOver([i \in ok |-> lmLog[ids[i]].latency], ok),
                   Cardinality(ok))

\* C28: each point is made of exactly the records that arrived since the
\* previous processed sample: the batches of the points, in order, are the
\* arrivals 1, 2, ... each once, up to the ones still buffered; a point's
\* latency is the mean over the successful records of its batch (0 if there
\* is none); lm.count is the number of records processed so far; the points
\* retained are the latest of the points made.
C28_PointPerBatch ==
    /\ batchIds(lmBatches) \o lmIds = [i \in 1 .. Len(lmLog) |-> i]
    /\ Len(lmIds) = Len(lmSamples)
    /\ \A k \in 1 .. Len(lmIds) : lmSamples[k] = lmLog[lmIds[k]]
    /\ lmCount = Len(lmLog) - Len(lmSamples)
    /\ \A j \in 1 .. Len(lmBatches) :
          /\ Len(lmBatches[j].ids) > 0
          /\ lmBatches[j].point.latency = meanOfBatch(lmBatches[j].ids)
    /\ LET n == Len(lmBatches)
           m == Len(lmPoints)
       IN  /\ m <= n
           /\ \A j \in 1 .. m : lmPoints[j] = lmBatches[n - m + j].point

\* two points were made, the second of a failed record only
C28_Witness ==
    /\ Len(lmBatches) = 2
    /\ Len(lmBatches[1].ids) = 2
    /\ lmBatches[1].point.latency = ratio(4, 2)
    /\ lmBatches[2].point.latency = zeroRatio
    /\ lmCount = 3

====
